---- MODULE Spec2Model ----
(***************************************************************************)
(* Model of src/app.py: the caption-removal pipeline                       *)
(* (auto_blur_bottom_text), the frame redactor (blur_boxes_in_frame) and   *)
(* the text region detector (ocr_detect_boxes).                            *)
(*                                                                         *)
(* A frame is a function  row -> column -> pixel  over 0..h-1 and 0..w-1   *)
(* (numpy's frame[y, x]); frame.shape[0] is the number of rows and         *)
(* frame.shape[1] the number of columns.  A box is <<x0, y0, x1, y1>>.     *)
(* Polygon vertices are kept in half pixels so that int() is a real        *)
(* truncation.  Confidences are integers 0..MaxConf (MaxConf stands for    *)
(* 1.0); an undefined confidence (None) is the empty sequence, a defined   *)
(* one a one-element sequence.                                             *)
(***************************************************************************)
EXTENDS Integers, Sequences, FiniteSets, TLC

\* ------------------------------------------------------------------ bounds
MaxFrames == 4        \* frames in a source video
MaxStep == 3          \* largest sample_step
MaxPix == 3           \* pixel values are 0..MaxPix
MaxConf == 2          \* confidence levels 0..MaxConf
MaxBoxes == 2         \* boxes in one call of blur_boxes_in_frame
MaxDet == 2           \* raw detections in one call of ocr_detect_boxes

\* ----------------------------------------------------------------- helpers
Max(a, b) == IF a >= b THEN a ELSE b
Min(a, b) == IF a <= b THEN a ELSE b

RECURSIVE SumSeq(_)
SumSeq(s) == IF s = <<>> THEN 0 ELSE Head(s) + SumSeq(Tail(s))

RECURSIVE SetToSeq(_)
SetToSeq(S) ==
  IF S = {} THEN <<>>
  ELSE LET e == CHOOSE x \in S : TRUE IN <<e>> \o SetToSeq(S \ {e})

MinOf(s) == CHOOSE m \in {s[i] : i \in DOMAIN s} : \A i \in DOMAIN s : m <= s[i]
MaxOf(s) == CHOOSE m \in {s[i] : i \in DOMAIN s} : \A i \in DOMAIN s : m >= s[i]

\* Python's int() on a float given in half units: truncation toward zero.
IntTrunc(half) == IF half >= 0 THEN half \div 2 ELSE -((-half) \div 2)

\* Python's  n | 1  on a two's-complement integer: sets the lowest bit.
BitOr1(n) == IF n % 2 = 1 THEN n ELSE n + 1

Shape0(frame) == Cardinality(DOMAIN frame)
Shape1(frame) == IF DOMAIN frame = {} THEN 0 ELSE Cardinality(DOMAIN frame[0])

\* ---------------------------------------------------------- frame redactor
\* Variant: the parity of ksize is left as it is.
KernelSizeAnyParity(ksize) == Max(3, ksize)

\* k = max(3, ksize | 1)
KernelSize(ksize) == Max(3, BitOr1(ksize))

\* cv2.GaussianBlur(roi, (k, k), 0) on the view roi = frame[y0:y1, x0:x1]:
\* the result has the shape of roi and each pixel is a weighted mean of the
\* roi's pixels in the k x k window around it.  The Gaussian weights are
\* abstracted to equal weights; the window is cut at the roi's border.
GaussianBlur(frame, x0, y0, x1, y1, k) ==
  LET r == (k - 1) \div 2
      Win(x, y) == {<<yy, xx>> \in (Max(y0, y - r)..Min(y1 - 1, y + r))
                                   \X (Max(x0, x - r)..Min(x1 - 1, x + r)) : TRUE}
      Mean(x, y) ==
        LET cells == SetToSeq(Win(x, y))
        IN  SumSeq([i \in DOMAIN cells |-> frame[cells[i][1]][cells[i][2]]])
              \div Len(cells)
  IN  [y \in y0..(y1 - 1) |-> [x \in x0..(x1 - 1) |-> Mean(x, y)]]

\* Variant: x1 and y1 are taken as the last column and row of the box.
BlurBoxInclusive(frame, box, ksize) ==
  LET x0 == Max(0, box[1])
      y0 == Max(0, box[2])
      x1 == Min(Shape1(frame), box[3] + 1)
      y1 == Min(Shape0(frame), box[4] + 1)
  IN  IF x1 > x0 /\ y1 > y0
      THEN LET blurred == GaussianBlur(frame, x0, y0, x1, y1, KernelSize(ksize))
           IN  [y \in DOMAIN frame |->
                 [x \in DOMAIN frame[y] |->
                   IF y \in y0..(y1 - 1) /\ x \in x0..(x1 - 1)
                   THEN blurred[y][x] ELSE frame[y][x]]]
      ELSE frame

\* One iteration of the for loop of blur_boxes_in_frame.
BlurBox(frame, box, ksize) ==
  LET x0 == Max(0, box[1])
      y0 == Max(0, box[2])
      x1 == Min(Shape1(frame), box[3])
      y1 == Min(Shape0(frame), box[4])
  IN  IF x1 > x0 /\ y1 > y0
      THEN LET k == KernelSize(ksize)
               blurred == GaussianBlur(frame, x0, y0, x1, y1, k)
           IN  [y \in DOMAIN frame |->
                 [x \in DOMAIN frame[y] |->
                   IF y \in y0..(y1 - 1) /\ x \in x0..(x1 - 1)
                   THEN blurred[y][x] ELSE frame[y][x]]]
      ELSE frame

\* The (k, k) arguments of the cv2.GaussianBlur calls of one run of the loop,
\* in call order: one for each box whose clamped region is not empty.
RECURSIVE KernelsUsed(_, _, _)
KernelsUsed(frame, boxes, ksize) ==
  IF boxes = <<>> THEN <<>>
  ELSE LET box == Head(boxes)
           x0 == Max(0, box[1])
           y0 == Max(0, box[2])
           x1 == Min(Shape1(frame), box[3])
           y1 == Min(Shape0(frame), box[4])
       IN  (IF x1 > x0 /\ y1 > y0 THEN <<KernelSize(ksize)>> ELSE <<>>)
             \o KernelsUsed(frame, Tail(boxes), ksize)

RECURSIVE blur_boxes_in_frame(_, _, _)
blur_boxes_in_frame(frame, boxes, ksize) ==
  IF boxes = <<>> THEN frame
  ELSE blur_boxes_in_frame(BlurBox(frame, Head(boxes), ksize), Tail(boxes), ksize)

\* ----------------------------------------------------- text region detector
\* A raw detection is [poly |-> sequence of <<x, y>> in half pixels,
\*                     text |-> string, conf |-> <<>> or <<c>>].
\* Variant: a detection exactly at the threshold is dropped.
KeepAbove(det, conf_th) == ~(det.conf = <<>> \/ det.conf[1] <= conf_th)

\* if conf is None or conf < conf_th: continue
Keep(det, conf_th) == ~(det.conf = <<>> \/ det.conf[1] < conf_th)

PolyBox(poly) ==
  LET xs == [i \in DOMAIN poly |-> IntTrunc(poly[i][1])]
      ys == [i \in DOMAIN poly |-> IntTrunc(poly[i][2])]
  IN  <<MinOf(xs), MinOf(ys), MaxOf(xs), MaxOf(ys)>>

RECURSIVE ocr_detect_boxes(_, _)
ocr_detect_boxes(results, conf_th) ==
  IF results = <<>> THEN <<>>
  ELSE (IF Keep(Head(results), conf_th) THEN <<PolyBox(Head(results).poly)>> ELSE <<>>)
         \o ocr_detect_boxes(Tail(results), conf_th)


\* ------------------------------------------------- caption-removal pipeline
VARIABLES
  pc,            \* position in auto_blur_bottom_text
  OCR_OK,        \* module flag set by the optional imports
  source,        \* the encoded input: [frames, dims, fps] as the decoder reports them
  params,        \* [bottom_pct, sample_step, conf_th, blur_ksize]
  td,            \* TRUE while the TemporaryDirectory exists
  cap,           \* decode handle: "none", "unopened", "open", "released"
  out,           \* encode handle: "none", "unopened", "open", "released"
  codecs_tried,  \* sequence of [fourcc, opened] in the order of the attempts
  out_params,    \* <<>> or <<[fourcc, fps, w, h]>> of the encoder that opened
  fps, w, h,     \* locals read from cap
  band_y0,       \* first row of the caption band
  frame_idx,     \* loop counter
  cached_boxes,  \* boxes of the last sampled frame, frame coordinates
  frames_read,   \* indices of the frames cap.read() delivered, in order
  read_failed,   \* TRUE when cap.read() gave ret = False before the last frame
  detect_log,    \* [idx, boxes]: each call of ocr_detect_boxes and its result
  handed,        \* [idx, boxes]: each call of blur_boxes_in_frame and its boxes
  dst_file,      \* [idx, frame]: the frames out.write() received, in order
  out_bytes,     \* <<>> or <<contents read back from out.mp4>>
  result,        \* <<>> or <<[data, pos]>>: the returned BytesIO
  err            \* "" or the error the call raised

pipeVars == <<pc, OCR_OK, source, params, td, cap, out, codecs_tried, out_params,
              fps, w, h, band_y0, frame_idx, cached_boxes, frames_read, read_failed,
              detect_log, handed, dst_file, out_bytes, result, err>>

\* The pure functions, when called on their own.
VARIABLES
  b_frame, b_boxes, b_ksize,   \* arguments of blur_boxes_in_frame
  b_result,                    \* <<>> or <<the frame it returned>>
  b_kernels,                   \* the kernel sizes it handed to cv2.GaussianBlur
  d_results, d_th,             \* readtext's result and conf_th
  d_result                     \* <<>> or <<the boxes ocr_detect_boxes returned>>

\* The Streamlit page: each action is one run of the script.
VARIABLES
  page_url,        \* the text input, stripped: "" or a URL
  session,         \* st.session_state: a function on the keys that are present
  opt_auto_blur,   \* the checkbox
  ui_click,        \* what triggered the last run: "none", "find", "download"
  ui_msgs,         \* the st.error / st.warning / st.success of the last run
  ui_fetched,      \* fetch_video_bytes returned in the last run
  ui_blur_called,  \* auto_blur_bottom_text was called in the last run
  ui_offered       \* <<>> or <<[data, url]>>: the st.download_button of the last run

\* fetch_video_bytes.
VARIABLES
  f_status_ok,     \* the response has a success status
  f_stream,        \* what r.iter_content() yields: a sequence of chunks
  f_max,           \* max_bytes
  f_pc,            \* "idle", "request", "loop", "check", "returned", "raised"
  f_next,          \* number of chunks taken from the stream
  f_buf,           \* the BytesIO: [data, pos]
  f_err            \* "" or the error raised

\* extract_video_urls_from_html.
VARIABLES
  x_html,          \* the page: [dove, other, raw]
  x_page,          \* page_url
  x_found,         \* found
  x_out,           \* the returned list
  x_pc             \* "idle", "parse", "order", "returned"

\* guess_filename_from_url.
VARIABLES
  n_url,           \* video_url from the end of the netloc on, as characters
  n_result,        \* the returned name
  n_pc             \* "idle", "call", "returned"

blurVars == <<b_frame, b_boxes, b_ksize, b_result, b_kernels>>
nameVars == <<n_url, n_result, n_pc>>
extractVars == <<x_html, x_page, x_found, x_out, x_pc>>
fetchVars == <<f_status_ok, f_stream, f_max, f_pc, f_next, f_buf, f_err>>
detVars == <<d_results, d_th, d_result>>
uiVars == <<page_url, session, opt_auto_blur, ui_click, ui_msgs, ui_fetched,
            ui_blur_called, ui_offered>>
pureVars == <<blurVars, detVars, uiVars, fetchVars, extractVars, nameVars>>
vars == <<pipeVars, pureVars>>

\* Inputs of the pipeline model.
Dims == {<<3, 2>>, <<2, 3>>}          \* <<width, height>> of the source
SourceFps == {0, 30}                  \* 0: the source reports no frame rate
BottomPcts == {0, 20, 50}             \* bottom_ratio in percent
KSizes == {4, 27}                     \* blur_ksize
ConfThs == {1, MaxConf + 1}           \* conf_th

\* Decoded frame i of the source.
SrcFrame(i, ww, hh) ==
  [y \in 0..(hh - 1) |-> [x \in 0..(ww - 1) |-> (i + x + 2 * y) % (MaxPix + 1)]]

\* What reader.readtext(band, detail=1) may return (band coordinates).
RawChoices ==
  { <<>>,
    << [poly |-> << <<0, 0>>, <<4, 0>>, <<4, 2>>, <<0, 2>> >>, text |-> "a",
        conf |-> <<MaxConf>>] >>,
    << [poly |-> << <<0, 0>>, <<2, 2>> >>, text |-> "b", conf |-> <<0>>],
       [poly |-> << <<2, 1>>, <<7, 1>>, <<7, 5>>, <<2, 5>> >>, text |-> "c",
        conf |-> <<1>>],
       [poly |-> << <<0, 0>>, <<6, 6>> >>, text |-> "d", conf |-> <<>>] >>,
    \* a polygon that starts above the band's first row
    << [poly |-> << <<0, -2>>, <<4, -2>>, <<4, 2>>, <<0, 2>> >>, text |-> "e",
        conf |-> <<MaxConf>>] >> }

\* Variant: the reported frame rate is used as it is.
FpsAsReported(f) == f

\* fps = cap.get(cv2.CAP_PROP_FPS) or 25.0
FpsOrDefault(f) == IF f = 0 THEN 25 ELSE f

\* band_y0 = int(h * (1.0 - bottom_ratio)), the ratio given in percent
BandY0(hh, pct) == (hh * (100 - pct)) \div 100

\* Variant: the detector runs on the frame after each sampled one.
SampledShifted(i, step) == (i + 1) % step = 0

\* frame_idx % sample_step == 0
Sampled(i, step) == i % step = 0

\* Variant: the band's boxes are used as frame coordinates, without the shift.
ShiftBoxesNoOffset(boxes, y) == boxes

\* [(x0, y0 + band_y0, x1, y1 + band_y0) for (x0, y0, x1, y1) in boxes_band]
ShiftBoxes(boxes, y) ==
  [i \in DOMAIN boxes |-> <<boxes[i][1], boxes[i][2] + y, boxes[i][3], boxes[i][4] + y>>]

\* The encoders tried: avc1 first, mp4v only when avc1 did not open.
EncoderAttempts(primary_ok, secondary_ok) ==
  IF primary_ok THEN << [fourcc |-> "avc1", opened |-> TRUE] >>
  ELSE << [fourcc |-> "avc1", opened |-> FALSE],
          [fourcc |-> "mp4v", opened |-> secondary_ok] >>

\* cv2.VideoWriter(dst, fourcc, fps, (w, h))
WriterParams(fourcc, f, ww, hh) == [fourcc |-> fourcc, fps |-> f, w |-> ww, h |-> hh]

\* Variant: only the frames the redactor changed are written.
WriteFrameIfChanged(file, idx, frame) ==
  IF frame = SrcFrame(idx, Shape1(frame), Shape0(frame)) THEN file
  ELSE Append(file, [idx |-> idx, frame |-> frame])

\* out.write(frame): the encoder appends the frame to out.mp4.
WriteFrame(file, idx, frame) == Append(file, [idx |-> idx, frame |-> frame])

\* Variant: the error is raised without releasing the decode handle.
CapLeftOpen == "open"

\* The decode handle after line 159, where both encoders failed.
CapAfterEncoderFailure == "released"

\* Variant: the directory is removed on return only (mkdtemp and a trailing
\* rmtree instead of the context manager).
TdRemovedOnReturnOnly(raised) == raised

\* Leaving the  with tempfile.TemporaryDirectory()  block, by return or by
\* exception: __exit__ removes the directory.
TdAfterWith(raised) == FALSE

InitPipe ==
  /\ pc = "idle"
  /\ OCR_OK \in BOOLEAN
  /\ source \in [frames : 0..MaxFrames, dims : Dims, fps : SourceFps]
  /\ params \in [bottom_pct : BottomPcts, sample_step : 1..MaxStep,
                 conf_th : ConfThs, blur_ksize : KSizes]
  /\ td = FALSE
  /\ cap = "none" /\ out = "none"
  /\ codecs_tried = <<>> /\ out_params = <<>>
  /\ fps = 0 /\ w = 0 /\ h = 0 /\ band_y0 = 0
  /\ frame_idx = 0 /\ cached_boxes = <<>>
  /\ frames_read = <<>> /\ read_failed = FALSE
  /\ detect_log = <<>> /\ handed = <<>> /\ dst_file = <<>>
  /\ out_bytes = <<>> /\ result = <<>> /\ err = ""

\* An exception leaves the function from inside the with block.
Raise(e) ==
  /\ pc' = "raised"
  /\ err' = e
  /\ td' = TdAfterWith(TRUE)

\* Lines 140-141: the capability check, before anything is acquired.
RaiseUnavailable ==
  /\ pc = "idle" /\ ~OCR_OK
  /\ pc' = "raised" /\ err' = "ocr_unavailable"
  /\ UNCHANGED pureVars
  /\ UNCHANGED <<OCR_OK, source, params, td, cap, out, codecs_tried, out_params,
                 fps, w, h, band_y0, frame_idx, cached_boxes, frames_read,
                 read_failed, detect_log, handed, dst_file, out_bytes, result>>

\* Lines 144-146: create the working directory and write in.mp4.
EnterWith ==
  /\ pc = "idle" /\ OCR_OK
  /\ td' = TRUE
  /\ pc' = "open_source"
  /\ UNCHANGED pureVars
  /\ UNCHANGED <<OCR_OK, source, params, cap, out, codecs_tried, out_params,
                 fps, w, h, band_y0, frame_idx, cached_boxes, frames_read,
                 read_failed, detect_log, handed, dst_file, out_bytes, result, err>>

\* Lines 148-151: open the decoder, read frame rate and dimensions.
OpenSource ==
  /\ pc = "open_source"
  /\ \E opened \in BOOLEAN :
       IF opened
       THEN /\ cap' = "open"
            /\ fps' = FpsOrDefault(source.fps)
            /\ w' = source.dims[1] /\ h' = source.dims[2]
            /\ pc' = "open_encoder"
            /\ UNCHANGED <<td, err>>
       ELSE /\ cap' = "unopened"
            /\ Raise("cannot_open_source")
            /\ UNCHANGED <<fps, w, h>>
  /\ UNCHANGED pureVars
  /\ UNCHANGED <<OCR_OK, source, params, out, codecs_tried, out_params, band_y0,
                 frame_idx, cached_boxes, frames_read, read_failed, detect_log,
                 handed, dst_file, out_bytes, result>>

\* Lines 153-159 up to cap.release(): primary codec, then the fallback.
OpenEncoder ==
  /\ pc = "open_encoder"
  /\ \E primary_ok \in BOOLEAN, secondary_ok \in BOOLEAN :
       LET tried == EncoderAttempts(primary_ok, secondary_ok)
           last == tried[Len(tried)]
       IN  /\ codecs_tried' = tried
           /\ IF last.opened
              THEN /\ out' = "open"
                   /\ out_params' = <<WriterParams(last.fourcc, fps, w, h)>>
                   /\ pc' = "make_reader"
                   /\ UNCHANGED cap
              ELSE /\ out' = "unopened"
                   /\ cap' = CapAfterEncoderFailure
                   /\ pc' = "encoder_failed"
                   /\ UNCHANGED out_params
  /\ UNCHANGED pureVars
  /\ UNCHANGED <<OCR_OK, source, params, td, fps, w, h, band_y0, frame_idx,
                 cached_boxes, frames_read, read_failed, detect_log, handed,
                 dst_file, out_bytes, result, err>>

\* Line 159: raise RuntimeError("cannot create output").
RaiseNoOutput ==
  /\ pc = "encoder_failed"
  /\ Raise("cannot_create_output")
  /\ UNCHANGED pureVars
  /\ UNCHANGED <<OCR_OK, source, params, cap, out, codecs_tried, out_params,
                 fps, w, h, band_y0, frame_idx, cached_boxes, frames_read,
                 read_failed, detect_log, handed, dst_file, out_bytes, result>>

\* Lines 161-163: build the recognition model, compute the band, reset the loop.
MakeReader ==
  /\ pc = "make_reader"
  /\ \E built \in BOOLEAN :
       IF built
       THEN /\ band_y0' = BandY0(h, params.bottom_pct)
            /\ frame_idx' = 0 /\ cached_boxes' = <<>>
            /\ pc' = "loop"
            /\ UNCHANGED <<td, err>>
       ELSE /\ Raise("reader_exception")
            /\ UNCHANGED <<band_y0, frame_idx, cached_boxes>>
  /\ UNCHANGED pureVars
  /\ UNCHANGED <<OCR_OK, source, params, cap, out, codecs_tried, out_params,
                 fps, w, h, frames_read, read_failed, detect_log, handed,
                 dst_file, out_bytes, result>>

\* Lines 165-166: cap.read() gives ret = False and the loop ends.  OpenCV
\* reports the end of the stream and a frame it could not decode the same
\* way, so the break is taken in both cases.
LoopBreak ==
  /\ pc = "loop"
  /\ \/ frame_idx = source.frames /\ UNCHANGED read_failed
     \/ frame_idx < source.frames /\ read_failed' = TRUE
  /\ pc' = "release"
  /\ UNCHANGED pureVars
  /\ UNCHANGED <<OCR_OK, source, params, td, cap, out, codecs_tried, out_params,
                 fps, w, h, band_y0, frame_idx, cached_boxes, frames_read,
                 detect_log, handed, dst_file, out_bytes, result, err>>

\* Lines 165-172: one iteration on a decoded frame.  Each of the four calls
\* (read, detect, blur, write) may raise; nothing in the loop catches it.
LoopFrame ==
  /\ pc = "loop"
  /\ frame_idx < source.frames
  /\ \E raw \in RawChoices,
        outcome \in {"ok", "read_raises", "detect_raises", "blur_raises", "write_raises"} :
       LET frame == SrcFrame(frame_idx, w, h)
           sampled == Sampled(frame_idx, params.sample_step)
           boxes_band == ocr_detect_boxes(raw, params.conf_th)
           cache == IF sampled THEN ShiftBoxes(boxes_band, band_y0) ELSE cached_boxes
           log == IF sampled
                  THEN Append(detect_log, [idx |-> frame_idx, boxes |-> boxes_band])
                  ELSE detect_log
           blurred == blur_boxes_in_frame(frame, cache, params.blur_ksize)
       IN  /\ outcome = "detect_raises" => sampled
           /\ frames_read' = IF outcome = "read_raises" THEN frames_read
                             ELSE Append(frames_read, frame_idx)
           /\ IF outcome \in {"ok", "blur_raises", "write_raises"}
              THEN cached_boxes' = cache /\ detect_log' = log
              ELSE UNCHANGED <<cached_boxes, detect_log>>
           /\ IF outcome \in {"ok", "write_raises"}
              THEN handed' = Append(handed, [idx |-> frame_idx, boxes |-> cache])
              ELSE UNCHANGED handed
           /\ IF outcome = "ok"
              THEN /\ dst_file' = WriteFrame(dst_file, frame_idx, blurred)
                   /\ frame_idx' = frame_idx + 1
                   /\ UNCHANGED <<pc, err, td>>
              ELSE /\ Raise(outcome)
                   /\ UNCHANGED <<dst_file, frame_idx>>
  /\ UNCHANGED pureVars
  /\ UNCHANGED <<OCR_OK, source, params, cap, out, codecs_tried, out_params,
                 fps, w, h, band_y0, read_failed, out_bytes, result>>

\* Variant: the handles are left open and the file is read back at once.
ReleaseSkipped ==
  /\ pc = "release"
  /\ pc' = "read_back"
  /\ UNCHANGED pureVars
  /\ UNCHANGED <<OCR_OK, source, params, td, cap, out, codecs_tried, out_params,
                 fps, w, h, band_y0, frame_idx, cached_boxes, frames_read,
                 read_failed, detect_log, handed, dst_file, out_bytes, result, err>>

\* Line 173: cap.release(); out.release()
ReleaseHandles ==
  /\ pc = "release"
  /\ cap' = "released" /\ out' = "released"
  /\ pc' = "read_back"
  /\ UNCHANGED pureVars
  /\ UNCHANGED <<OCR_OK, source, params, td, codecs_tried, out_params, fps, w, h,
                 band_y0, frame_idx, cached_boxes, frames_read, read_failed,
                 detect_log, handed, dst_file, out_bytes, result, err>>

\* Lines 174-175: read out.mp4 back into memory.
ReadBack ==
  /\ pc = "read_back"
  /\ out_bytes' = <<dst_file>>
  /\ pc' = "return"
  /\ UNCHANGED pureVars
  /\ UNCHANGED <<OCR_OK, source, params, td, cap, out, codecs_tried, out_params,
                 fps, w, h, band_y0, frame_idx, cached_boxes, frames_read,
                 read_failed, detect_log, handed, dst_file, result, err>>

\* Line 176: seek(0) and return, leaving the with block.
Return ==
  /\ pc = "return"
  /\ result' = <<[data |-> out_bytes[1], pos |-> 0]>>
  /\ td' = TdAfterWith(FALSE)
  /\ pc' = "returned"
  /\ UNCHANGED pureVars
  /\ UNCHANGED <<OCR_OK, source, params, cap, out, codecs_tried, out_params,
                 fps, w, h, band_y0, frame_idx, cached_boxes, frames_read,
                 read_failed, detect_log, handed, dst_file, out_bytes, err>>

\* ------------------------------------- the two pure functions, called alone
BlurDims == <<3, 2>>
BlurKSizes == {-4, -3, 0, 1, 2, 3, 4, 5, 7}
\* Per axis: before the frame, clamped at its start, clamped at its end,
\* behind the frame, empty, inverted, the whole axis.
XIntervals == { <<-2, -1>>, <<-1, 1>>, <<1, BlurDims[1] + 1>>,
                <<BlurDims[1] + 1, BlurDims[1] + 2>>, <<1, 1>>, <<2, 0>>,
                <<0, BlurDims[1]>> }
YIntervals == { <<-2, -1>>, <<-1, 1>>, <<1, BlurDims[2] + 1>>,
                <<BlurDims[2] + 1, BlurDims[2] + 2>>, <<1, 0>> }
BlurBoxes == {<<xi[1], yi[1], xi[2], yi[2]>> : xi \in XIntervals, yi \in YIntervals}

DetPolys == { << <<0, 0>>, <<4, 0>>, <<4, 2>>, <<0, 2>> >>,
              << <<3, 1>>, <<7, 3>>, <<5, 5>>, <<1, 3>> >>,
              << <<-1, -3>>, <<2, 3>> >> }
DetConfs == {<<>>} \cup {<<c>> : c \in 0..MaxConf}
Detections == [poly : DetPolys, text : {"t"}, conf : DetConfs]

SeqsUpTo(S, n) == UNION {[1..k -> S] : k \in 0..n}

\* ------------------------------------------------------------ Streamlit UI
MaxVids == 2          \* URLs in one result of extract_video_urls_from_html
UiUrls == {"u1", "u2", "u3"}
PageUrls == {"", "p"}
SessionKeys == {"vid_urls", "chosen_vid", "dl_data", "dl_name"}
\* What extract_video_urls_from_html may return: no URL twice.
VidLists ==
  {l \in SeqsUpTo(UiUrls, MaxVids) : \A i, j \in DOMAIN l : l[i] = l[j] => i = j}

\* st.session_state.pop(k, None) for each k of keys
Pop(s, keys) == [k \in (DOMAIN s) \ keys |-> s[k]]
\* st.session_state[k] = v
Put(s, k, v) == [x \in (DOMAIN s) \cup {k} |-> IF x = k THEN v ELSE s[x]]

\* Variant: a find without result forgets the list but not the selection.
SessionAfterFindKeepsChoice(s, vids) ==
  IF vids = <<>> THEN Pop(s, {"vid_urls", "dl_data", "dl_name"})
  ELSE Pop(Put(Put(s, "vid_urls", vids), "chosen_vid", vids[1]), {"dl_data", "dl_name"})

\* Lines 197-203.
SessionAfterFind(s, vids) ==
  IF vids = <<>> THEN Pop(s, SessionKeys)
  ELSE Pop(Put(Put(s, "vid_urls", vids), "chosen_vid", vids[1]), {"dl_data", "dl_name"})

\* Variant: the pipeline is called whenever the option is checked.
UseBlurUnguarded(opt, ocr) == opt

\* Line 258: if opt_auto_blur and OCR_OK
UseBlur(opt, ocr) == opt /\ ocr

\* Line 208: the selection, the options and the download button are rendered.
ControlsShown(s) == "vid_urls" \in DOMAIN s

\* Lines 227-228: the warning next to the checkbox.
OcrWarning(s, opt) ==
  IF ControlsShown(s) /\ opt /\ ~OCR_OK THEN <<"warning_ocr_missing">> ELSE <<>>

UiParked ==
  /\ page_url = "" /\ session = <<>> /\ opt_auto_blur = FALSE
  /\ ui_click = "none" /\ ui_msgs = <<>> /\ ui_fetched = FALSE
  /\ ui_blur_called = FALSE /\ ui_offered = <<>>

\* A run without a button: nothing but the widgets is evaluated.
PlainRun(s, opt) ==
  /\ ui_click' = "none"
  /\ ui_msgs' = OcrWarning(s, opt)
  /\ ui_fetched' = FALSE /\ ui_blur_called' = FALSE /\ ui_offered' = <<>>

\* Line 183: the user edits the text input.
EditPageUrl ==
  /\ \E u \in PageUrls : page_url' = u
  /\ PlainRun(session, opt_auto_blur)
  /\ UNCHANGED <<session, opt_auto_blur, pipeVars, blurVars, detVars, fetchVars, extractVars, nameVars>>

\* Lines 186-205, then the rest of the script.
ClickFind ==
  /\ IF page_url = ""
     THEN /\ ui_msgs' = <<"error_no_url">> \o OcrWarning(session, opt_auto_blur)
          /\ UNCHANGED <<session, opt_auto_blur>>
     ELSE \E raised \in BOOLEAN, found \in VidLists :
            LET vids == IF raised THEN <<>> ELSE found
                after == SessionAfterFind(session, vids)
                \* a checkbox that is not rendered loses its state
                opt == ControlsShown(after) /\ opt_auto_blur
            IN  /\ session' = after
                /\ opt_auto_blur' = opt
                /\ ui_msgs' = (IF raised THEN <<"error_fetch_parse">>
                               ELSE <<>>)
                              \o (IF vids = <<>> THEN <<"warning_no_video">>
                                  ELSE <<"success_found">>)
                              \o OcrWarning(after, opt)
  /\ ui_click' = "find"
  /\ ui_fetched' = FALSE /\ ui_blur_called' = FALSE /\ ui_offered' = <<>>
  /\ UNCHANGED <<page_url, pipeVars, blurVars, detVars, fetchVars, extractVars, nameVars>>

\* Lines 209-214: the user picks another entry of the selectbox keyed "chosen_vid".
SelectVideo ==
  /\ ControlsShown(session)
  /\ \E i \in DOMAIN session["vid_urls"] :
       session' = Put(session, "chosen_vid", session["vid_urls"][i])
  /\ PlainRun(session, opt_auto_blur)
  /\ UNCHANGED <<page_url, opt_auto_blur, pipeVars, blurVars, detVars, fetchVars, extractVars, nameVars>>

\* Lines 225-228: the user toggles the checkbox.
ToggleAutoBlur ==
  /\ ControlsShown(session)
  /\ opt_auto_blur' = ~opt_auto_blur
  /\ PlainRun(session, ~opt_auto_blur)
  /\ UNCHANGED <<page_url, session, pipeVars, blurVars, detVars, fetchVars, extractVars, nameVars>>

\* Lines 254-274.  fetch_video_bytes returns or raises; auto_blur_bottom_text,
\* when called, raises at once without OCR_OK and otherwise returns or raises.
ClickDownload ==
  /\ ControlsShown(session)
  /\ \E fetched \in BOOLEAN, blur_returns \in BOOLEAN :
       LET call == fetched /\ UseBlur(opt_auto_blur, OCR_OK)
           raised == ~fetched \/ (call /\ (~OCR_OK \/ ~blur_returns))
       IN  /\ ui_fetched' = fetched
           /\ ui_blur_called' = call
           /\ ui_offered' =
                IF raised THEN <<>>
                ELSE << [data |-> IF call THEN "blurred" ELSE "raw",
                         url |-> session["chosen_vid"]] >>
           /\ ui_msgs' = OcrWarning(session, opt_auto_blur)
                         \o (IF raised THEN <<"error_processing_failed">>
                             ELSE <<"success_ready">>)
  /\ ui_click' = "download"
  /\ UNCHANGED <<page_url, session, opt_auto_blur, pipeVars, blurVars, detVars, fetchVars, extractVars, nameVars>>

\* ------------------------------------------------------- fetch_video_bytes
MaxChunks == 3        \* chunks in one response
MaxChunkLen == 2      \* bytes in one chunk
MaxBytes == 3         \* largest max_bytes
ByteVals == {1, 2}
Chunks == SeqsUpTo(ByteVals, MaxChunkLen)

\* buf.write(chunk): the bytes go in at the position, which moves behind them.
BufWrite(buf, chunk) ==
  [data |-> SubSeq(buf.data, 1, buf.pos) \o chunk
              \o SubSeq(buf.data, buf.pos + Len(chunk) + 1, Len(buf.data)),
   pos |-> buf.pos + Len(chunk)]

\* Variant: a download of exactly max_bytes is refused.
TooLargeAtLimit(buf, max_bytes) == buf.pos >= max_bytes

\* Line 108: buf.tell() > max_bytes
TooLarge(buf, max_bytes) == buf.pos > max_bytes

FetchParked ==
  /\ f_status_ok = TRUE /\ f_stream = <<>> /\ f_max = 0 /\ f_pc = "idle"
  /\ f_next = 0 /\ f_buf = [data |-> <<>>, pos |-> 0] /\ f_err = ""

\* Lines 100-103: the request and raise_for_status().
FetchRequest ==
  /\ f_pc = "request"
  /\ IF f_status_ok THEN f_pc' = "loop" /\ UNCHANGED f_err
     ELSE f_pc' = "raised" /\ f_err' = "http_error"
  /\ UNCHANGED <<f_status_ok, f_stream, f_max, f_next, f_buf>>
  /\ UNCHANGED <<pipeVars, blurVars, detVars, uiVars, extractVars, nameVars>>

\* Lines 104-107: take the next chunk; an empty one is skipped, another is written.
FetchChunk ==
  /\ f_pc = "loop" /\ f_next < Len(f_stream)
  /\ f_next' = f_next + 1
  /\ LET chunk == f_stream[f_next + 1]
     IN  IF chunk = <<>> THEN UNCHANGED <<f_buf, f_pc>>
         ELSE f_buf' = BufWrite(f_buf, chunk) /\ f_pc' = "check"
  /\ UNCHANGED <<f_status_ok, f_stream, f_max, f_err>>
  /\ UNCHANGED <<pipeVars, blurVars, detVars, uiVars, extractVars, nameVars>>

\* Lines 108-109: the size check after the write.
FetchCheck ==
  /\ f_pc = "check"
  /\ IF TooLarge(f_buf, f_max)
     THEN f_pc' = "raised" /\ f_err' = "too_large"
     ELSE f_pc' = "loop" /\ UNCHANGED f_err
  /\ UNCHANGED <<f_status_ok, f_stream, f_max, f_next, f_buf>>
  /\ UNCHANGED <<pipeVars, blurVars, detVars, uiVars, extractVars, nameVars>>

\* Lines 110-111: the stream is exhausted; seek(0) and return.
FetchReturn ==
  /\ f_pc = "loop" /\ f_next = Len(f_stream)
  /\ f_buf' = [f_buf EXCEPT !.pos = 0]
  /\ f_pc' = "returned"
  /\ UNCHANGED <<f_status_ok, f_stream, f_max, f_next, f_err>>
  /\ UNCHANGED <<pipeVars, blurVars, detVars, uiVars, extractVars, nameVars>>

\* ----------------------------------------- extract_video_urls_from_html
\* A URL string is kept as what urlparse splits it into: the scheme ("" when
\* the string has none), the labels of the netloc (<<>> when there is none),
\* whether the path starts with "/", and the path segments.  "//h/p" is
\* [scheme "", host h], "/p" and "p" have neither scheme nor host.
MaxFound == 2         \* src attributes under div.react-dove-video

Url(scheme, host, rooted, path) ==
  [scheme |-> scheme, host |-> host, rooted |-> rooted, path |-> path]

CdnUrl == Url("https", <<"v", "alicdn", "com">>, TRUE, <<"a.mp4">>)
CdnUrlNoScheme == Url("", <<"v", "alicdn", "com">>, TRUE, <<"a.mp4">>)
NameInPathUrl == Url("https", <<"evil", "net">>, TRUE, <<"alicdn.com", "a.mp4">>)
NameInHostUrl == Url("https", <<"notalicdn", "com">>, TRUE, <<"a.mp4">>)
OtherUrl == Url("https", <<"other", "net">>, TRUE, <<"a.mp4">>)
RootedUrl == Url("", <<>>, TRUE, <<"v", "a.mp4">>)
RelativeUrl == Url("", <<>>, FALSE, <<"a.mp4">>)
SiteUrl == Url("https", <<"www", "alibaba", "com">>, TRUE, <<"v", "a.mp4">>)

SrcUrls ==
  {CdnUrl, CdnUrlNoScheme, NameInPathUrl, NameInHostUrl, OtherUrl,
   RootedUrl, RelativeUrl, SiteUrl}
\* The patterns of stage 3 only match strings that start with http(s):.
RawUrls == {CdnUrl, OtherUrl}
ExtractPages ==
  {Url("https", <<"www", "alibaba", "com">>, TRUE, <<"p">>),
   Url("https", <<"shop", "net">>, TRUE, <<"d", "p">>)}

\* name in label, for the labels and names used here.
LabelHolds(label, name) ==
  label = name \/ (label = "notalicdn" /\ name = "alicdn")

\* (name + ".com") in u, a test on the whole string: the name may sit in
\* the netloc, at the end of a longer label, or in a path segment.
InString(name, u) ==
  \/ \E i \in 1..(Len(u.host) - 1) :
       LabelHolds(u.host[i], name) /\ u.host[i + 1] = "com"
  \/ \E i \in 1..Len(u.path) : u.path[i] = name \o ".com"

\* Line 81: "alicdn.com" in u or "alibaba.com" in u
IsPri(u) == InString("alicdn", u) \/ InString("alibaba", u)
IsSec(u) == ~IsPri(u)

\* urljoin(base, u) for a u without scheme and netloc.
urljoin(base, u) ==
  Url(base.scheme, base.host, TRUE,
      IF u.rooted THEN u.path
      ELSE SubSeq(base.path, 1, Len(base.path) - 1) \o u.path)

\* Line 49: u if urlparse(u).netloc else urljoin(base, u)
absolutize(u, base) == IF u.host # <<>> THEN u ELSE urljoin(base, u)

\* Lines 82-87: absolutize each, keep the first occurrence.
RECURSIVE Dedup(_, _, _)
Dedup(us, page, acc) ==
  IF us = <<>> THEN acc
  ELSE LET uu == absolutize(Head(us), page)
       IN  Dedup(Tail(us), page,
                 IF \E i \in 1..Len(acc) : acc[i] = uu THEN acc
                 ELSE Append(acc, uu))

\* Lines 56-76: the first stage that finds something supplies found.  Both
\* patterns of stage 3 match a plain URL; only the second matches an
\* escaped one, which _unescape_js_url turns into the plain form.
Found(html) ==
  IF html.dove # <<>> THEN html.dove
  ELSE IF html.other # <<>> THEN html.other
  ELSE html.raw \o html.raw \o html.escaped

\* Lines 79-88.
Ordered(found, page) ==
  Dedup(SelectSeq(found, IsPri) \o SelectSeq(found, IsSec), page, <<>>)

ExtractParked ==
  /\ x_html = [dove |-> <<>>, other |-> <<>>, raw |-> <<>>, escaped |-> <<>>]
  /\ x_page = Url("", <<>>, TRUE, <<>>)
  /\ x_found = <<>> /\ x_out = <<>> /\ x_pc = "idle"

\* Lines 52-76.
ExtractParse ==
  /\ x_pc = "parse"
  /\ x_found' = Found(x_html)
  /\ x_pc' = "order"
  /\ UNCHANGED <<x_html, x_page, x_out>>
  /\ UNCHANGED <<pipeVars, blurVars, detVars, uiVars, fetchVars, nameVars>>

\* Lines 78-88.
ExtractOrder ==
  /\ x_pc = "order"
  /\ x_out' = Ordered(x_found, x_page)
  /\ x_pc' = "returned"
  /\ UNCHANGED <<x_html, x_page, x_found>>
  /\ UNCHANGED <<pipeVars, blurVars, detVars, uiVars, fetchVars, nameVars>>

\* ------------------------------------------------- guess_filename_from_url
\* A string is a sequence of one-character strings; "NUL" and "STX" stand
\* for the control characters U+0000 and U+0002.
MaxStem == 3          \* characters of the last segment before the extension

Str4(a, b, c, d) == <<a, b, c, d>>
StemChars == {"g", "%", "2", "0", "!", " ", "_"}
WordChars ==
  {"g", "m", "p", "4", "o", "v", "w", "e", "b", "i", "d", "M", "O", "V",
   "2", "0", "_"}
NameDirs == {<<"/">>, <<"/", "g", "/">>}
NameExts == {<<>>, <<".">>, Str4(".", "m", "p", "4"), Str4(".", "M", "O", "V")}
NameQueries == {<<>>, Str4("?", "g", "/", "g")}
VideoExts ==
  {Str4(".", "m", "p", "4"), Str4(".", "m", "o", "v"), Str4(".", "m", "4", "v"),
   <<".", "w", "e", "b", "m">>}

\* urlparse(video_url).path: what stands before the query.
UrlPath(u) ==
  IF \E i \in 1..Len(u) : u[i] = "?"
  THEN SubSeq(u, 1, (CHOOSE i \in 1..Len(u) :
                       u[i] = "?" /\ \A j \in 1..(i - 1) : u[j] # "?") - 1)
  ELSE u

\* os.path.basename: what stands behind the last "/".
Basename(p) ==
  IF \E i \in 1..Len(p) : p[i] = "/"
  THEN SubSeq(p, (CHOOSE i \in 1..Len(p) :
                    p[i] = "/" /\ \A j \in (i + 1)..Len(p) : p[j] # "/") + 1,
              Len(p))
  ELSE p

\* The class [\w\-. ] of line 93.
Allowed(c) == c \in WordChars \cup {"-", ".", " "}

\* re.sub(r"[^\w\-. ]+", "_", s): each run outside the class becomes one "_".
RECURSIVE ReSub(_)
ReSub(s) ==
  IF s = <<>> THEN <<>>
  ELSE IF Allowed(Head(s)) THEN <<Head(s)>> \o ReSub(Tail(s))
  ELSE IF Len(s) >= 2 /\ ~Allowed(s[2]) THEN ReSub(Tail(s))
  ELSE <<"_">> \o ReSub(Tail(s))

HexDigits == {"0", "2"}
HexPair(a, b) ==
  IF a = "2" THEN (IF b = "0" THEN " " ELSE "\"")
  ELSE (IF b = "0" THEN "NUL" ELSE "STX")

\* urllib.parse.unquote: "%" and two hex digits become the character.
RECURSIVE unquote(_)
unquote(s) ==
  IF s = <<>> THEN <<>>
  ELSE IF Head(s) = "%" /\ Len(s) >= 3 /\ s[2] \in HexDigits /\ s[3] \in HexDigits
       THEN <<HexPair(s[2], s[3])>> \o unquote(SubSeq(s, 4, Len(s)))
  ELSE <<Head(s)>> \o unquote(Tail(s))

\* str.strip("._ ")
RECURSIVE Strip(_)
Strip(s) ==
  IF s = <<>> THEN <<>>
  ELSE IF Head(s) \in {".", "_", " "} THEN Strip(Tail(s))
  ELSE IF s[Len(s)] \in {".", "_", " "} THEN Strip(SubSeq(s, 1, Len(s) - 1))
  ELSE s

\* str.lower(), on the characters used here.
LowerChar(c) ==
  IF c = "M" THEN "m" ELSE IF c = "O" THEN "o" ELSE IF c = "V" THEN "v" ELSE c
Lower(s) == [i \in 1..Len(s) |-> LowerChar(s[i])]

EndsWith(s, suffix) ==
  Len(s) >= Len(suffix) /\ SubSeq(s, Len(s) - Len(suffix) + 1, Len(s)) = suffix

OrVideo(s) == IF s = <<>> THEN <<"v", "i", "d", "e", "o">> ELSE s

\* Lines 94-95.
WithExtension(name) ==
  IF \E e \in VideoExts : EndsWith(Lower(name), e) THEN name
  ELSE name \o Str4(".", "m", "p", "4")

\* Lines 92-96.
guess_filename_from_url(video_url) ==
  LET name == OrVideo(Basename(UrlPath(video_url)))
  IN  WithExtension(OrVideo(Strip(unquote(ReSub(name)))))

NameParked == n_url = <<>> /\ n_result = <<>> /\ n_pc = "idle"

CallGuess ==
  /\ n_pc = "call"
  /\ n_result' = guess_filename_from_url(n_url)
  /\ n_pc' = "returned"
  /\ UNCHANGED n_url
  /\ UNCHANGED <<pipeVars, blurVars, detVars, uiVars, fetchVars, extractVars>>

PipeParked ==
  /\ pc = "parked" /\ OCR_OK = TRUE
  /\ source = [frames |-> 0, dims |-> <<3, 2>>, fps |-> 0]
  /\ params = [bottom_pct |-> 20, sample_step |-> 1, conf_th |-> 1, blur_ksize |-> 27]
  /\ td = FALSE /\ cap = "none" /\ out = "none"
  /\ codecs_tried = <<>> /\ out_params = <<>>
  /\ fps = 0 /\ w = 0 /\ h = 0 /\ band_y0 = 0
  /\ frame_idx = 0 /\ cached_boxes = <<>>
  /\ frames_read = <<>> /\ read_failed = FALSE
  /\ detect_log = <<>> /\ handed = <<>> /\ dst_file = <<>>
  /\ out_bytes = <<>> /\ result = <<>> /\ err = ""

BlurParked ==
  /\ b_frame = <<>> /\ b_boxes = <<>> /\ b_ksize = 0 /\ b_result = <<>>
  /\ b_kernels = <<>>

DetParked ==
  /\ d_results = <<>> /\ d_th = 0 /\ d_result = <<>>

\* The pipeline.
Init == InitPipe /\ BlurParked /\ DetParked /\ UiParked /\ FetchParked /\ ExtractParked /\ NameParked

Next ==
  \/ RaiseUnavailable
  \/ EnterWith
  \/ OpenSource
  \/ OpenEncoder
  \/ RaiseNoOutput
  \/ MakeReader
  \/ LoopBreak
  \/ LoopFrame
  \/ ReleaseHandles
  \/ ReadBack
  \/ Return

Spec == Init /\ [][Next]_vars

\* blur_boxes_in_frame on its own.
InitBlur ==
  /\ PipeParked /\ DetParked /\ UiParked /\ FetchParked /\ ExtractParked /\ NameParked
  /\ b_frame = SrcFrame(0, BlurDims[1], BlurDims[2])
  /\ b_boxes \in SeqsUpTo(BlurBoxes, MaxBoxes)
  /\ b_ksize \in BlurKSizes
  /\ b_result = <<>> /\ b_kernels = <<>>

CallBlur ==
  /\ b_result = <<>>
  /\ b_result' = <<blur_boxes_in_frame(b_frame, b_boxes, b_ksize)>>
  /\ b_kernels' = KernelsUsed(b_frame, b_boxes, b_ksize)
  /\ UNCHANGED <<b_frame, b_boxes, b_ksize, pipeVars, detVars, uiVars, fetchVars, extractVars, nameVars>>

SpecBlur == InitBlur /\ [][CallBlur]_vars

\* ocr_detect_boxes on its own.
InitDetect ==
  /\ PipeParked /\ BlurParked /\ UiParked /\ FetchParked /\ ExtractParked /\ NameParked
  /\ d_results \in SeqsUpTo(Detections, MaxDet)
  /\ d_th \in 0..(MaxConf + 1)
  /\ d_result = <<>>

CallDetect ==
  /\ d_result = <<>>
  /\ d_result' = <<ocr_detect_boxes(d_results, d_th)>>
  /\ UNCHANGED <<d_results, d_th, pipeVars, blurVars, uiVars, fetchVars, extractVars, nameVars>>

SpecDetect == InitDetect /\ [][CallDetect]_vars

\* The page, and a call of auto_blur_bottom_text made without OCR_OK.
InitUI ==
  /\ pc = "idle" /\ OCR_OK \in BOOLEAN
  /\ source = [frames |-> 0, dims |-> <<3, 2>>, fps |-> 0]
  /\ params = [bottom_pct |-> 20, sample_step |-> 1, conf_th |-> 1, blur_ksize |-> 27]
  /\ td = FALSE /\ cap = "none" /\ out = "none"
  /\ codecs_tried = <<>> /\ out_params = <<>>
  /\ fps = 0 /\ w = 0 /\ h = 0 /\ band_y0 = 0
  /\ frame_idx = 0 /\ cached_boxes = <<>>
  /\ frames_read = <<>> /\ read_failed = FALSE
  /\ detect_log = <<>> /\ handed = <<>> /\ dst_file = <<>>
  /\ out_bytes = <<>> /\ result = <<>> /\ err = ""
  /\ BlurParked /\ DetParked /\ UiParked /\ FetchParked /\ ExtractParked /\ NameParked

NextUI ==
  \/ EditPageUrl
  \/ ClickFind
  \/ SelectVideo
  \/ ToggleAutoBlur
  \/ ClickDownload
  \/ RaiseUnavailable

SpecUI == InitUI /\ [][NextUI]_vars

\* fetch_video_bytes on its own.
InitFetch ==
  /\ PipeParked /\ BlurParked /\ DetParked /\ UiParked /\ ExtractParked /\ NameParked
  /\ f_status_ok \in BOOLEAN
  /\ f_stream \in SeqsUpTo(Chunks, MaxChunks)
  /\ f_max \in 0..MaxBytes
  /\ f_pc = "request" /\ f_next = 0
  /\ f_buf = [data |-> <<>>, pos |-> 0] /\ f_err = ""

NextFetch ==
  \/ FetchRequest
  \/ FetchChunk
  \/ FetchCheck
  \/ FetchReturn

SpecFetch == InitFetch /\ [][NextFetch]_vars

\* extract_video_urls_from_html on its own.
InitExtract ==
  /\ PipeParked /\ BlurParked /\ DetParked /\ UiParked /\ FetchParked /\ NameParked
  /\ x_html \in [dove : SeqsUpTo(SrcUrls, MaxFound),
                 other : {<<>>, <<OtherUrl>>, <<RootedUrl, CdnUrl>>},
                 raw : {<<>>, <<OtherUrl, CdnUrl>>} \cup {<<u>> : u \in RawUrls},
                 escaped : {<<>>} \cup {<<u>> : u \in RawUrls}]
  /\ x_page \in ExtractPages
  /\ x_found = <<>> /\ x_out = <<>> /\ x_pc = "parse"

NextExtract ==
  \/ ExtractParse
  \/ ExtractOrder

SpecExtract == InitExtract /\ [][NextExtract]_vars

\* guess_filename_from_url on its own.
InitName ==
  /\ PipeParked /\ BlurParked /\ DetParked /\ UiParked /\ FetchParked
  /\ ExtractParked
  /\ n_url \in {d \o stem \o e \o q :
                  d \in NameDirs, stem \in SeqsUpTo(StemChars, MaxStem),
                  e \in NameExts, q \in NameQueries}
  /\ n_result = <<>> /\ n_pc = "call"

SpecName == InitName /\ [][CallGuess]_vars

\* ------------------------------------------------------------- properties
Exited == pc \in {"returned", "raised"}
\* Between two iterations, or after the loop on the way to the return.
BetweenFrames == pc \in {"loop", "release", "read_back", "return", "returned"}
CeilDiv(a, b) == (a + b - 1) \div b
Indices(log) == [k \in DOMAIN log |-> log[k].idx]

\* C1: whatever the exit path, no decode or encode handle that was opened is
\* still open once auto_blur_bottom_text has exited.
C1_HandlesReleasedOnExit ==
  Exited => (cap # "open" /\ out # "open")

\* C2: the detector runs on the frames whose index is a multiple of
\* sample_step and on no other: after n frames it has run on 0, N, 2N, ...
\* below n, that is ceil(n / N) times; a run that returned after a full pass
\* over the T frames of the source ran it ceil(T / N) times.
C2_DetectorOnSampledFrames ==
  LET N == params.sample_step
  IN  /\ BetweenFrames =>
           /\ Len(detect_log) = CeilDiv(frame_idx, N)
           /\ \A k \in DOMAIN detect_log : detect_log[k].idx = (k - 1) * N
           /\ \A i \in 0..(frame_idx - 1) :
                (i % N = 0) <=> (\E k \in DOMAIN detect_log : detect_log[k].idx = i)
      /\ (pc = "returned" /\ ~read_failed) =>
           /\ frame_idx = source.frames
           /\ Len(detect_log) = CeilDiv(source.frames, N)

C2_Witness ==
  /\ pc = "returned" /\ ~read_failed
  /\ source.frames = 4 /\ params.sample_step = 3
  /\ Indices(detect_log) = <<0, 3>>
  /\ Len(handed) = 4

\* C3: the boxes the redactor gets for frame i are the detector's result on
\* frame N * (i div N) with band_y0 added to both y-coordinates and the
\* x-coordinates untouched, and the cache always holds the shifted result of
\* the latest detector call, so nothing but a sampled frame replaces it.
C3_Shifted(boxes_band, boxes) ==
  /\ Len(boxes) = Len(boxes_band)
  /\ \A m \in DOMAIN boxes :
       /\ boxes[m][1] = boxes_band[m][1]
       /\ boxes[m][3] = boxes_band[m][3]
       /\ boxes[m][2] = boxes_band[m][2] + band_y0
       /\ boxes[m][4] = boxes_band[m][4] + band_y0

C3_RedactorGetsSampledBoxes ==
  LET N == params.sample_step
  IN  /\ \A k \in DOMAIN handed :
           /\ handed[k].idx = k - 1
           /\ \E j \in DOMAIN detect_log :
                /\ detect_log[j].idx = N * ((k - 1) \div N)
                /\ C3_Shifted(detect_log[j].boxes, handed[k].boxes)
      /\ IF detect_log = <<>> THEN cached_boxes = <<>>
         ELSE C3_Shifted(detect_log[Len(detect_log)].boxes, cached_boxes)

C3_Witness ==
  /\ params.sample_step = 2 /\ band_y0 > 0
  /\ Len(handed) = 3
  /\ handed[1].boxes # <<>>
  /\ handed[2].boxes = handed[1].boxes
  /\ handed[3].boxes # handed[2].boxes

\* C4: a buffer is returned only after every frame of the source was read
\* and written; a frame that cannot be read ends the call in an error.
C4_FullPassOrFailure ==
  /\ pc = "returned" =>
       /\ Indices(dst_file) = [k \in 1..source.frames |-> k - 1]
       /\ Len(result[1].data) = source.frames
  /\ read_failed => result = <<>>

\* C5: when neither encoder opens, the call ends in "cannot create output",
\* the decode handle is already released when the error is raised, no frame
\* was read or detected and nothing is returned.
C5_BothEncodersFail ==
  (Len(codecs_tried) = 2 /\ ~codecs_tried[2].opened) =>
    /\ pc \in {"encoder_failed", "raised"}
    /\ pc = "raised" => err = "cannot_create_output"
    /\ cap = "released" /\ out = "unopened"
    /\ frames_read = <<>> /\ detect_log = <<>> /\ dst_file = <<>>
    /\ result = <<>>

C5_Witness ==
  /\ pc = "raised" /\ err = "cannot_create_output"
  /\ cap = "released" /\ ~td
  /\ Len(codecs_tried) = 2

\* C6: mp4v is tried exactly when avc1 did not open; when it opens the run
\* goes on and a run that returns hands back the written frames; the encoder
\* that is open got the width, height and frame rate of the source, 25 for
\* a source that reports 0.
C6_EncoderFallback ==
  /\ codecs_tried # <<>> =>
       /\ codecs_tried[1].fourcc = "avc1"
       /\ Len(codecs_tried) = 2 <=> ~codecs_tried[1].opened
       /\ Len(codecs_tried) = 2 => codecs_tried[2].fourcc = "mp4v"
  /\ out \in {"open", "released"} =>
       /\ out_params # <<>>
       /\ out_params[1].fourcc = codecs_tried[Len(codecs_tried)].fourcc
       /\ out_params[1].w = source.dims[1]
       /\ out_params[1].h = source.dims[2]
       /\ out_params[1].fps = (IF source.fps = 0 THEN 25 ELSE source.fps)
  /\ (Len(codecs_tried) = 2 /\ codecs_tried[2].opened) =>
       /\ out \in {"open", "released"}
       /\ pc # "encoder_failed" /\ err # "cannot_create_output"
       /\ pc = "returned" => (result # <<>> /\ result[1].data = dst_file)

C6_Witness ==
  /\ pc = "returned"
  /\ Len(codecs_tried) = 2 /\ out_params[1].fourcc = "mp4v"
  /\ source.fps = 0 /\ out_params[1].fps = 25
  /\ Len(result[1].data) >= 2

\* C7: once auto_blur_bottom_text has exited, by return or by any error, the
\* working directory does not exist.
C7_WorkingDirectoryRemoved ==
  Exited => ~td

C7_Witness ==
  /\ pc = "raised" /\ err = "blur_raises"
  /\ ~td /\ frames_read # <<>>

\* C8: between iterations the frames written are the frames read, once each
\* and in decode order, each with the source's width and height; a run that
\* returned after a full pass wrote as many frames as the source holds.
C8_EveryFrameWrittenOnce ==
  /\ BetweenFrames =>
       /\ frames_read = [k \in 1..frame_idx |-> k - 1]
       /\ Indices(dst_file) = frames_read
       /\ \A k \in DOMAIN dst_file :
            /\ Shape1(dst_file[k].frame) = source.dims[1]
            /\ Shape0(dst_file[k].frame) = source.dims[2]
       /\ out_params[1].w = source.dims[1] /\ out_params[1].h = source.dims[2]
  /\ (pc = "returned" /\ ~read_failed) =>
       /\ Len(dst_file) = source.frames
       /\ Len(result[1].data) = source.frames

C8_Witness ==
  /\ pc = "returned" /\ ~read_failed
  /\ params.bottom_pct = 0 /\ band_y0 = h
  /\ source.frames >= 2 /\ Len(result[1].data) = source.frames
  /\ \A k \in DOMAIN handed : handed[k].boxes = <<>>

\* C9: blur_boxes_in_frame returns a frame of the same shape in which every
\* pixel outside all the clamped boxes of positive area is as it was.
C9_Covered(x, y) ==
  \E i \in DOMAIN b_boxes :
    /\ Max(0, b_boxes[i][1]) <= x /\ x < Min(BlurDims[1], b_boxes[i][3])
    /\ Max(0, b_boxes[i][2]) <= y /\ y < Min(BlurDims[2], b_boxes[i][4])

C9_PixelsOutsideBoxesKept ==
  b_result # <<>> =>
    /\ DOMAIN b_result[1] = DOMAIN b_frame
    /\ \A y \in DOMAIN b_frame :
         /\ DOMAIN b_result[1][y] = DOMAIN b_frame[y]
         /\ \A x \in DOMAIN b_frame[y] :
              ~C9_Covered(x, y) => b_result[1][y][x] = b_frame[y][x]

C9_Witness ==
  /\ b_result # <<>> /\ Len(b_boxes) = 2
  /\ b_boxes[1] = <<-2, -1, -1, 1>>
  /\ b_boxes[2] = <<1, -1, BlurDims[1] + 1, 1>>
  /\ b_result[1][0][2] # b_frame[0][2]
  /\ \E y \in DOMAIN b_frame : \E x \in DOMAIN b_frame[y] : ~C9_Covered(x, y)

\* C10: ocr_detect_boxes returns one box per detection whose confidence is
\* defined and at least conf_th, in readtext's order, duplicates included;
\* each box spans the integer parts of the polygon's vertex coordinates; a
\* threshold above every confidence gives no box.
C10_Kept(i) == d_results[i].conf # <<>> /\ d_results[i].conf[1] >= d_th
C10_Rank(i) == Cardinality({m \in 1..i : C10_Kept(m)})
C10_Spans(box, poly) ==
  /\ \A n \in DOMAIN poly :
       /\ box[1] <= IntTrunc(poly[n][1]) /\ IntTrunc(poly[n][1]) <= box[3]
       /\ box[2] <= IntTrunc(poly[n][2]) /\ IntTrunc(poly[n][2]) <= box[4]
  /\ \E n \in DOMAIN poly : box[1] = IntTrunc(poly[n][1])
  /\ \E n \in DOMAIN poly : box[2] = IntTrunc(poly[n][2])
  /\ \E n \in DOMAIN poly : box[3] = IntTrunc(poly[n][1])
  /\ \E n \in DOMAIN poly : box[4] = IntTrunc(poly[n][2])

C10_DetectorFiltersByConfidence ==
  d_result # <<>> =>
    /\ Len(d_result[1]) = Cardinality({i \in DOMAIN d_results : C10_Kept(i)})
    /\ \A i \in DOMAIN d_results :
         C10_Kept(i) => C10_Spans(d_result[1][C10_Rank(i)], d_results[i].poly)
    /\ d_th > MaxConf => d_result[1] = <<>>

C10_Witness ==
  /\ d_result # <<>> /\ Len(d_results) = 2
  /\ d_results[1].conf = <<d_th>> /\ d_results[2] = d_results[1]
  /\ d_result[1] = << <<0, -1, 1, 1>>, <<0, -1, 1, 1>> >>

\* C11 as stated: without OCR_OK a call of auto_blur_bottom_text raises with
\* nothing acquired, a download click with the option checked ends in an
\* error with nothing offered, and one without the option offers the raw video.
C11_UnavailableIsFatal ==
  /\ (pc = "raised" /\ err = "ocr_unavailable") =>
       (~td /\ cap = "none" /\ out = "none" /\ result = <<>>)
  /\ (~OCR_OK /\ ui_click = "download" /\ opt_auto_blur) =>
       (ui_offered = <<>> /\ ui_msgs[Len(ui_msgs)] = "error_processing_failed")
  /\ (~OCR_OK /\ ui_click = "download" /\ ~opt_auto_blur /\ ui_fetched) =>
       (ui_offered # <<>> /\ ui_offered[1].data = "raw")

\* C11 amended: without OCR_OK a call of auto_blur_bottom_text raises with
\* nothing acquired; a download click never calls it, checked or not: once
\* the video is fetched it offers the raw video, with the warning about the
\* missing libraries when the option is checked.
C11_UnavailableSkipsBlur ==
  /\ (pc = "raised" /\ err = "ocr_unavailable") =>
       (~td /\ cap = "none" /\ out = "none" /\ result = <<>>)
  /\ (~OCR_OK /\ ui_click = "download") =>
       /\ ~ui_blur_called
       /\ ui_fetched <=> ui_offered # <<>>
       /\ ui_fetched => /\ ui_offered[1].data = "raw"
                        /\ ui_offered[1].url = session["chosen_vid"]
                        /\ ui_msgs[Len(ui_msgs)] = "success_ready"
       /\ opt_auto_blur <=> ui_msgs[1] = "warning_ocr_missing"

C11_Witness ==
  /\ ~OCR_OK /\ ui_click = "download" /\ opt_auto_blur
  /\ ui_offered # <<>> /\ ui_offered[1].data = "raw"
  /\ ui_msgs = <<"warning_ocr_missing", "success_ready">>
  /\ pc = "raised" /\ err = "ocr_unavailable"

\* C20: chosen_vid is present exactly when vid_urls is; vid_urls is then not
\* empty and chosen_vid is one of its entries, the first right after a find
\* with results; after a find without result (or failing) none of the four
\* keys is present; dl_data and dl_name are never present.
C20_SessionConsistent ==
  /\ ("chosen_vid" \in DOMAIN session) <=> ("vid_urls" \in DOMAIN session)
  /\ "vid_urls" \in DOMAIN session =>
       /\ session["vid_urls"] # <<>>
       /\ \E i \in DOMAIN session["vid_urls"] :
            session["chosen_vid"] = session["vid_urls"][i]
  /\ (ui_click = "find" /\ ui_msgs[1] = "success_found") =>
       (ControlsShown(session) /\ session["chosen_vid"] = session["vid_urls"][1])
  /\ (ui_click = "find" /\ "warning_no_video" \in {ui_msgs[i] : i \in DOMAIN ui_msgs}) =>
       (DOMAIN session = {} /\ ~ControlsShown(session))
  /\ DOMAIN session \subseteq {"vid_urls", "chosen_vid"}

C20_Witness ==
  /\ ui_click = "find"
  /\ ui_msgs = <<"error_fetch_parse", "warning_no_video">>
  /\ DOMAIN session = {}
  /\ page_url = "p"

\* C12: fetch_video_bytes ends in the size error exactly when the status is
\* a success and the stream holds more than max_bytes bytes; when it returns,
\* the buffer holds every chunk in arrival order and stands at offset 0; on
\* a failure status it raises before it takes a chunk.
RECURSIVE C12_Concat(_)
C12_Concat(chunks) ==
  IF chunks = <<>> THEN <<>> ELSE Head(chunks) \o C12_Concat(Tail(chunks))

C12_SizeCapExact ==
  f_pc \in {"returned", "raised"} =>
    /\ f_err = "too_large" <=> (f_status_ok /\ Len(C12_Concat(f_stream)) > f_max)
    /\ f_pc = "returned" <=> (f_status_ok /\ Len(C12_Concat(f_stream)) <= f_max)
    /\ f_pc = "returned" => f_buf = [data |-> C12_Concat(f_stream), pos |-> 0]
    /\ ~f_status_ok => (f_err = "http_error" /\ f_next = 0 /\ f_buf.data = <<>>)

C12_Witness ==
  /\ f_pc = "returned"
  /\ f_stream = << <<2>>, <<>>, <<1, 2>> >>
  /\ f_max = 3
  /\ f_buf = [data |-> <<2, 1, 2>>, pos |-> 0]

\* C17: while fetch_video_bytes is in its chunk loop the buffer never holds
\* more than max_bytes bytes.
C17_BufferWithinLimit ==
  f_pc \in {"loop", "check"} => Len(f_buf.data) <= f_max

\* C13: in the list extract_video_urls_from_html returns, every URL whose
\* host is alicdn.com, alibaba.com or a subdomain of one precedes every URL
\* whose host is not.
C13_Trusted(u) ==
  /\ Len(u.host) >= 2
  /\ SubSeq(u.host, Len(u.host) - 1, Len(u.host))
       \in {<<"alicdn", "com">>, <<"alibaba", "com">>}

C13_TrustedFirst ==
  x_pc = "returned" =>
    \A i, j \in 1..Len(x_out) :
      (C13_Trusted(x_out[j]) /\ ~C13_Trusted(x_out[i])) => j < i

\* C14: the list extract_video_urls_from_html returns holds only absolute
\* URLs, none twice, holds the resolved form of every discovered URL, and
\* is empty when nothing was discovered.
C14_Resolved(u, base) ==
  IF u.scheme # "" THEN u
  ELSE IF u.host # <<>> THEN Url(base.scheme, u.host, u.rooted, u.path)
  ELSE urljoin(base, u)

C14_AbsoluteAndUnique ==
  x_pc = "returned" =>
    /\ \A i \in 1..Len(x_out) : x_out[i].scheme # "" /\ x_out[i].host # <<>>
    /\ \A i, j \in 1..Len(x_out) : x_out[i] = x_out[j] => i = j
    /\ \A k \in 1..Len(x_found) :
         \E i \in 1..Len(x_out) : x_out[i] = C14_Resolved(x_found[k], x_page)
    /\ x_found = <<>> => x_out = <<>>

\* C15: guess_filename_from_url returns the last path segment (query
\* excluded), percent-decoded, then with what lies outside [A-Za-z0-9_.\- ]
\* replaced by "_", then trimmed of ".", "_" and " ", then "video" if empty,
\* then given ".mp4" unless it ends, whatever the case, in a video extension.
C15_Expected(u) ==
  WithExtension(OrVideo(Strip(ReSub(unquote(Basename(UrlPath(u)))))))

C15_DecodedThenSanitized ==
  n_pc = "returned" => n_result = C15_Expected(n_url)

\* C16: whatever integer ksize blur_boxes_in_frame is given, every kernel
\* size it hands to the blur is odd and at least 3, and is ksize itself when
\* ksize is odd and at least 3.
C16_KernelOddAtLeast3 ==
  b_result # <<>> =>
    \A i \in 1..Len(b_kernels) :
      /\ b_kernels[i] % 2 = 1
      /\ b_kernels[i] >= 3
      /\ (b_ksize % 2 = 1 /\ b_ksize >= 3) => b_kernels[i] = b_ksize

C16_Witness ==
  /\ b_result # <<>>
  /\ b_ksize = 4
  /\ b_kernels = <<5, 5>>

\* C18: on the success path of auto_blur_bottom_text both handles are
\* released after the last frame is written (nothing is written to the file
\* once the encode handle is released), the file is read back only after the
\* release, the working directory is removed only after the read-back, and
\* the returned buffer holds the whole read-back at offset 0.
C18_Steps ==
  /\ pc = "release" =>
       cap = "open" /\ out = "open" /\ td /\ out_bytes = <<>> /\ result = <<>>
  /\ pc = "read_back" =>
       cap = "released" /\ out = "released" /\ td /\ out_bytes = <<>>
       /\ result = <<>>
  /\ pc = "return" =>
       cap = "released" /\ out = "released" /\ td /\ out_bytes = <<dst_file>>
       /\ result = <<>>
  /\ pc = "returned" =>
       cap = "released" /\ out = "released" /\ ~td /\ out_bytes = <<dst_file>>
       /\ result = <<[data |-> out_bytes[1], pos |-> 0]>>
  /\ out_bytes # <<>> => out = "released"
  /\ result # <<>> => out_bytes # <<>>

C18_ReleaseReadBackRemove ==
  /\ []C18_Steps
  /\ [][out = "released" => dst_file' = dst_file]_vars

C18_Witness ==
  /\ pc = "returned" /\ ~read_failed /\ ~td
  /\ source.frames >= 2
  /\ result = <<[data |-> dst_file, pos |-> 0]>>
  /\ Len(dst_file) = source.frames
  /\ cap = "released" /\ out = "released"

\* C19: provided no box the detector returned starts before row 0 of the
\* band it was given (as boxes lying within the band do not), every cached
\* box has both y-coordinates at band_y0 or below it, and in every frame
\* written the rows before band_y0 are those of the decoded source frame.
C19_BoxesInBand ==
  \A k \in DOMAIN detect_log :
    \A i \in DOMAIN detect_log[k].boxes :
      detect_log[k].boxes[i][2] >= 0 /\ detect_log[k].boxes[i][4] >= 0

C19_RowsAboveBandKept ==
  C19_BoxesInBand =>
    /\ \A i \in DOMAIN cached_boxes :
         cached_boxes[i][2] >= band_y0 /\ cached_boxes[i][4] >= band_y0
    /\ \A k \in DOMAIN dst_file :
         \A y \in 0..(band_y0 - 1) :
           dst_file[k].frame[y] = SrcFrame(dst_file[k].idx, w, h)[y]

C19_Witness ==
  /\ pc = "returned" /\ C19_BoxesInBand
  /\ band_y0 >= 1 /\ cached_boxes # <<>>
  /\ \E k \in DOMAIN dst_file :
       /\ dst_file[k].frame # SrcFrame(dst_file[k].idx, w, h)
       /\ dst_file[k].frame[0] = SrcFrame(dst_file[k].idx, w, h)[0]

====
